---- MODULE Spec2Model ----
(***************************************************************************)
(* TOTP generator (RFC 6238 on RFC 4226): the TOTP class of                *)
(* backend/totp.py, the Flask handlers of backend/app.py, and the          *)
(* launcher start.py that spawns the two servers and stops them.           *)
(*                                                                         *)
(* Python values are represented as follows.                               *)
(*   str        a sequence of one-character strings, so that upper(),      *)
(*              lower(), len(), padding, str() and zfill() are computed    *)
(*              character by character;                                    *)
(*   bytes      a sequence of integers 0..255;                             *)
(*   int        an integer.  TLC's integers are 32-bit, so the places      *)
(*              where Python holds a wider value (the 8-byte counter, the  *)
(*              unsigned 4-byte word before masking, 10 ** digits for      *)
(*              digits >= 10) are computed on bytes or split by cases, as  *)
(*              noted at each place;                                       *)
(*   None / an absent argument or JSON key    the empty sequence <<>>,     *)
(*              a present value v being <<v>>;                             *)
(*   an exception   the name of its class in the field exc ("None" when    *)
(*              nothing was raised).                                       *)
(* A method is an operator from (self, arguments) to a record that holds   *)
(* the object after the call (self), the exception raised (exc) and the    *)
(* value returned (ret).                                                   *)
(***************************************************************************)
EXTENDS Integers, Sequences, FiniteSets, TLC

\* ------------------------------------------------------------------ bounds

\* Wall-clock and caller-supplied timestamps range over 0..MaxTimestamp.
MaxTimestamp == 4
\* Verification windows range over -1..MaxWindow.
MaxWindow == 2
\* A thread serves at most MaxRequests requests.
MaxRequests == 2

\* ------------------------------------------------------------- str helpers

Lowercase ==
  <<"a","b","c","d","e","f","g","h","i","j","k","l","m",
    "n","o","p","q","r","s","t","u","v","w","x","y","z">>

Uppercase ==
  <<"A","B","C","D","E","F","G","H","I","J","K","L","M",
    "N","O","P","Q","R","S","T","U","V","W","X","Y","Z">>

DecimalDigits == <<"0","1","2","3","4","5","6","7","8","9">>

\* str.upper() and str.lower(), character by character
UpperOf ==
  [c \in {Lowercase[k] : k \in 1..26} |-> Uppercase[CHOOSE k \in 1..26 : Lowercase[k] = c]]

LowerOf ==
  [c \in {Uppercase[k] : k \in 1..26} |-> Lowercase[CHOOSE k \in 1..26 : Uppercase[k] = c]]

str_upper(s) == [i \in 1..Len(s) |-> IF s[i] \in DOMAIN UpperOf THEN UpperOf[s[i]] ELSE s[i]]

str_lower(s) == [i \in 1..Len(s) |-> IF s[i] \in DOMAIN LowerOf THEN LowerOf[s[i]] ELSE s[i]]

\* c * n for a one-character string c
str_repeat(c, n) == [i \in 1..n |-> c]

\* str(n) for an int n >= 0
RECURSIVE str_of_int(_)
str_of_int(n) ==
  IF n < 10 THEN <<DecimalDigits[n + 1]>>
            ELSE str_of_int(n \div 10) \o <<DecimalDigits[(n % 10) + 1]>>

\* str.zfill(width) of a string without sign
str_zfill(s, width) ==
  IF Len(s) >= width THEN s ELSE str_repeat("0", width - Len(s)) \o s

\* ------------------------------------------------------- base64.b32decode

B32Alphabet == Uppercase \o <<"2","3","4","5","6","7">>

\* The value of each Base32 digit (_b32rev of the base64 module).
b32rev ==
  [c \in {B32Alphabet[k] : k \in 1..32} |-> (CHOOSE k \in 1..32 : B32Alphabet[k] = c) - 1]

\* s.rstrip('='): the length of s without its trailing '=' characters
RstripLen(s) ==
  IF \E k \in 1..Len(s) : s[k] # "="
    THEN CHOOSE k \in 1..Len(s) : s[k] # "=" /\ \A j \in (k + 1)..Len(s) : s[j] = "="
    ELSE 0

\* Byte j (from 0) of the bit string that the 5-bit values v spell, most
\* significant bit first: its 8 bits lie within the groups g, g + 1, g + 2.
B32Byte(v, j) ==
  LET g == (8 * j) \div 5
      r == (8 * j) % 5
      at(k) == IF k + 1 <= Len(v) THEN v[k + 1] ELSE 0
  IN ((at(g) * 1024 + at(g + 1) * 32 + at(g + 2)) \div (2 ^ (7 - r))) % 256

\* base64.b32decode(s): binascii.Error (a ValueError) when the length is no
\* multiple of 8, a character before the padding is outside A-Z2-7, or the
\* number of padding characters is not 0, 1, 3, 4 or 6; otherwise the bytes
\* of the 5-bit groups, the last partial quantum cut to its whole bytes.
b32decode(s) ==
  LET n == RstripLen(s)
      padchars == Len(s) - n
      v == [k \in 1..n |-> b32rev[s[k]]]
  IN IF Len(s) % 8 # 0
       THEN [exc |-> "ValueError", ret |-> <<>>]
     ELSE IF \E k \in 1..n : s[k] \notin DOMAIN b32rev
       THEN [exc |-> "ValueError", ret |-> <<>>]
     ELSE IF padchars \notin {0, 1, 3, 4, 6}
       THEN [exc |-> "ValueError", ret |-> <<>>]
     ELSE [exc |-> "None", ret |-> [j \in 1..((5 * n) \div 8) |-> B32Byte(v, j - 1)]]

\* ------------------------------------------------------- hmac and struct

\* struct.pack('>Q', counter): struct.error unless 0 <= counter <= 2**64 - 1,
\* else the 8 bytes of counter, most significant first.  Every counter of
\* the model is below 2**31, so the upper limit is never exceeded and the
\* four most significant bytes are 0.
struct_pack_Q(counter) ==
  IF counter < 0
    THEN [exc |-> "struct.error", ret |-> <<>>]
    ELSE [exc |-> "None",
          ret |-> [k \in 1..8 |->
                     IF k <= 4 THEN 0 ELSE (counter \div (256 ^ (8 - k))) % 256]]

\* The counter an 8-byte message of struct_pack_Q encodes.
CounterOfMessage(msg) == msg[5] * 16777216 + msg[6] * 65536 + msg[7] * 256 + msg[8]

\* hmac.new(key, struct.pack('>Q', c), hashlib.sha1).digest() for c = 0..15,
\* key = [72, 101, 108, 108, 111]; entry c + 1 is the digest of counter c.
Digests_sha1_JBSWY3DP ==
  <<
    <<79,3,224,150,35,247,98,83,147,16,217,188,231,38,149,107,181,161,111,193>>,
    <<46,64,176,194,174,132,25,10,10,53,39,253,57,113,101,92,206,187,217,164>>,
    <<202,15,28,239,26,140,173,213,5,106,223,173,218,26,125,204,79,65,234,11>>,
    <<160,95,189,177,69,150,89,131,136,227,56,106,128,80,36,91,247,35,238,252>>,
    <<179,17,126,252,105,197,71,60,25,118,184,183,182,159,184,255,77,47,229,54>>,
    <<68,18,194,160,97,46,85,110,119,146,17,29,46,116,46,185,100,22,34,173>>,
    <<249,86,160,5,61,142,245,70,194,18,75,160,23,132,156,41,176,123,226,72>>,
    <<238,225,46,126,193,216,187,15,230,59,159,167,187,214,55,224,124,177,87,239>>,
    <<156,228,8,248,6,128,3,219,244,68,182,156,81,168,112,213,180,203,182,222>>,
    <<176,11,251,155,228,33,136,45,10,43,84,248,188,111,48,140,233,193,40,70>>,
    <<24,4,75,10,219,124,92,212,173,112,165,92,239,125,222,15,210,38,229,102>>,
    <<112,75,171,37,86,29,92,251,15,109,248,160,82,6,231,87,101,134,249,246>>,
    <<177,11,250,90,187,160,130,140,131,158,127,118,159,172,65,253,199,4,215,237>>,
    <<68,13,9,35,44,153,247,221,148,60,49,18,9,129,101,8,101,94,176,96>>,
    <<128,59,164,43,127,254,119,192,26,160,109,150,203,119,103,40,131,217,57,238>>,
    <<37,216,180,206,127,243,43,66,254,172,140,135,198,129,55,196,106,11,0,19>>
  >>

\* hmac.new(key, struct.pack('>Q', c), hashlib.sha1).digest() for c = 0..15,
\* key = [26, 47, 250]; entry c + 1 is the digest of counter c.
Digests_sha1_DIX7U ==
  <<
    <<172,156,249,90,49,145,120,30,169,101,157,40,146,82,21,217,136,66,217,130>>,
    <<23,165,107,9,137,34,8,245,157,197,119,215,165,85,18,252,246,204,126,107>>,
    <<80,54,168,3,77,208,63,48,122,215,127,252,7,15,115,18,243,155,101,108>>,
    <<243,108,159,60,47,217,213,122,12,226,53,78,15,250,51,52,202,48,129,189>>,
    <<173,64,89,130,183,141,160,122,10,122,199,243,113,146,127,105,228,80,198,226>>,
    <<149,116,235,155,81,206,143,161,248,8,66,20,132,74,123,108,68,105,251,198>>,
    <<216,74,237,122,201,248,186,228,254,82,104,19,35,180,86,206,153,225,205,76>>,
    <<44,136,221,66,157,14,103,113,87,25,2,235,24,84,81,100,164,143,173,80>>,
    <<6,248,2,61,136,105,74,198,62,82,64,114,209,127,95,30,99,47,209,136>>,
    <<182,74,238,43,5,85,35,50,165,102,154,102,189,207,99,188,249,80,48,66>>,
    <<15,123,88,224,58,32,209,70,73,152,229,106,211,146,103,132,194,71,89,146>>,
    <<14,71,35,119,67,96,209,142,10,163,221,87,208,115,153,18,67,247,125,96>>,
    <<151,166,235,99,233,98,149,137,111,29,0,226,77,247,156,44,176,208,149,204>>,
    <<1,180,131,128,231,81,249,44,223,69,199,26,180,173,99,226,232,212,179,82>>,
    <<183,47,220,79,56,237,40,253,35,82,75,133,161,68,222,212,115,179,251,205>>,
    <<240,24,139,49,242,40,236,4,214,27,236,64,127,59,69,157,5,33,159,89>>
  >>

\* hmac.new(key, struct.pack('>Q', c), hashlib.sha256).digest() for c = 0..15,
\* key = [72, 101, 108, 108, 111]; entry c + 1 is the digest of counter c.
Digests_sha256_JBSWY3DP ==
  <<
    <<229,229,30,41,186,245,162,234,129,121,117,231,210,162,64,87,228,30,122,92,9,107,101,212,253,83,28,250,76,212,119,241>>,
    <<90,163,185,199,126,31,85,111,53,194,3,191,105,55,189,91,107,16,195,31,155,252,135,175,3,172,79,137,50,144,158,132>>,
    <<165,159,72,25,251,223,133,58,86,216,133,152,235,20,248,17,5,168,113,51,189,61,86,207,25,214,237,202,203,227,184,115>>,
    <<217,1,2,58,189,200,233,124,92,145,171,14,50,64,205,117,253,239,126,161,176,110,126,209,28,57,31,4,113,208,38,165>>,
    <<171,93,47,214,189,133,200,224,137,188,56,228,148,9,157,204,78,130,181,237,47,141,205,245,182,51,23,91,97,37,48,42>>,
    <<115,189,98,4,58,220,210,77,243,86,244,113,63,13,2,120,130,223,172,47,166,29,179,178,63,154,197,72,57,85,105,220>>,
    <<223,213,30,91,175,218,139,83,209,161,75,57,161,237,236,62,223,180,228,232,237,238,53,184,180,243,35,248,56,175,3,106>>,
    <<41,24,62,150,22,214,134,201,55,19,63,212,6,66,62,120,11,132,186,173,7,133,169,182,41,192,22,151,5,240,80,30>>,
    <<186,12,241,197,63,52,60,90,2,66,124,35,154,12,242,245,5,69,21,179,161,0,113,140,63,37,127,127,244,203,232,59>>,
    <<236,241,176,22,133,5,152,238,234,29,75,69,116,191,190,68,151,86,196,1,203,29,96,145,136,178,223,27,68,225,40,78>>,
    <<36,253,247,112,99,218,21,46,56,152,82,137,248,252,58,241,79,108,151,216,173,9,172,246,225,123,248,49,111,169,183,167>>,
    <<81,113,246,155,4,132,102,222,164,156,77,223,220,102,138,108,237,9,211,114,67,109,143,33,12,96,147,183,77,101,134,60>>,
    <<16,181,115,166,108,111,4,69,31,22,53,208,176,202,12,200,145,134,131,90,46,226,187,76,218,26,235,38,181,79,222,62>>,
    <<209,109,139,85,160,211,219,218,168,3,232,219,153,7,229,129,224,229,179,70,199,73,165,254,204,184,248,107,53,247,203,69>>,
    <<167,145,229,252,140,107,116,212,93,54,103,106,101,205,98,110,49,122,24,165,255,217,194,75,113,197,252,109,199,121,228,225>>,
    <<96,182,8,150,141,39,231,155,247,15,112,254,248,115,75,6,221,126,159,26,94,190,1,37,210,196,216,20,243,18,46,19>>
  >>

\* hmac.new(key, struct.pack('>Q', c), hashlib.sha256).digest() for c = 0..15,
\* key = [26, 47, 250]; entry c + 1 is the digest of counter c.
Digests_sha256_DIX7U ==
  <<
    <<24,121,95,108,211,114,37,193,95,72,34,85,183,144,63,211,187,170,250,36,11,221,121,45,143,224,229,9,111,237,217,58>>,
    <<12,132,84,54,141,51,86,158,92,213,192,146,51,187,90,178,132,166,89,169,71,77,145,118,252,146,12,40,150,172,27,242>>,
    <<46,194,229,151,88,179,174,58,25,71,160,83,182,85,155,57,203,197,38,150,228,80,62,185,8,250,201,118,73,103,77,236>>,
    <<222,167,65,149,116,170,197,100,81,139,141,90,193,150,102,235,121,26,12,210,252,58,124,93,79,110,78,83,113,239,189,136>>,
    <<91,179,105,185,172,226,66,121,67,68,148,249,167,179,102,187,45,196,84,179,154,121,104,18,73,255,200,7,3,133,78,200>>,
    <<225,179,171,111,114,144,92,82,149,23,147,10,98,16,27,226,100,78,34,234,120,22,50,41,244,88,121,197,170,100,179,38>>,
    <<86,122,179,168,245,201,81,78,168,209,155,47,180,143,41,148,241,190,139,160,156,138,239,218,233,52,219,230,66,74,83,73>>,
    <<109,93,5,180,155,18,202,98,216,227,19,131,57,6,109,76,64,218,139,172,147,221,179,154,36,217,19,85,164,105,213,70>>,
    <<185,91,22,120,157,115,10,220,151,34,213,212,33,209,28,160,13,218,208,248,114,177,5,179,77,20,179,110,175,140,63,99>>,
    <<251,244,174,85,123,13,73,33,144,88,34,193,35,158,147,65,39,175,40,136,246,222,79,147,104,68,11,55,114,115,128,70>>,
    <<167,18,57,54,130,159,47,190,186,19,129,123,55,134,155,153,3,107,246,200,73,215,188,89,122,79,159,46,138,227,230,16>>,
    <<90,224,19,219,63,125,2,145,206,8,193,167,110,122,79,179,182,84,13,187,222,80,164,107,163,177,236,67,145,183,126,191>>,
    <<148,91,122,3,244,150,129,146,242,54,84,234,170,201,149,38,61,192,194,203,134,165,239,46,34,217,126,130,122,64,6,33>>,
    <<14,224,63,21,22,16,213,110,75,176,216,47,192,19,119,60,13,28,30,121,57,54,202,187,147,38,69,73,187,77,172,145>>,
    <<150,74,235,60,142,189,212,197,90,65,220,188,224,242,99,196,41,92,20,34,177,47,58,168,14,148,212,255,192,201,119,215>>,
    <<120,196,94,159,197,42,223,83,151,38,100,51,95,203,52,13,154,215,129,107,242,191,75,108,252,13,234,29,222,232,26,202>>
  >>

\* hmac.new(key, struct.pack('>Q', c), hashlib.sha512).digest() for c = 0..15,
\* key = [72, 101, 108, 108, 111]; entry c + 1 is the digest of counter c.
Digests_sha512_JBSWY3DP ==
  <<
    <<40,51,54,120,33,41,181,206,189,25,175,181,11,235,182,89,99,42,201,171,189,191,86,122,154,60,84,180,200,165,165,148,178,239,239,125,1,79,172,195,248,120,35,140,136,62,55,115,187,204,224,255,180,111,103,94,234,147,168,97,192,103,129,118>>,
    <<236,118,194,246,237,201,228,207,246,224,6,42,129,212,192,96,3,181,211,17,196,8,116,101,236,115,82,186,13,101,46,70,161,93,48,203,170,115,218,208,130,218,73,12,72,58,235,247,98,193,148,188,231,67,136,252,168,224,73,190,251,240,88,17>>,
    <<49,19,111,153,99,253,75,35,53,180,106,75,216,58,52,249,142,148,27,96,102,106,5,66,199,161,34,215,140,3,85,203,209,216,127,250,19,122,18,45,235,153,117,76,222,215,1,108,247,249,59,239,91,104,92,84,9,4,130,194,218,167,200,91>>,
    <<209,13,158,194,204,66,250,173,120,112,101,71,122,130,209,64,196,229,188,189,213,146,206,145,89,155,219,202,45,94,88,203,48,48,233,231,175,36,254,150,128,38,62,132,125,17,98,4,159,29,83,251,105,220,239,174,135,129,67,154,87,244,177,227>>,
    <<251,246,128,101,56,158,232,152,70,254,213,101,43,251,66,35,145,76,58,212,203,166,87,26,147,199,94,216,66,16,81,6,165,228,229,41,189,126,41,250,225,59,152,40,81,3,198,158,106,239,152,50,183,156,165,28,109,251,60,26,101,248,189,195>>,
    <<99,229,114,212,61,125,222,38,14,251,163,54,140,234,166,168,93,115,197,45,44,213,186,19,13,17,248,230,226,188,173,15,119,110,153,59,234,14,44,168,231,170,127,35,19,199,113,68,165,9,235,250,7,69,6,154,235,237,175,168,243,200,175,175>>,
    <<230,226,8,100,119,181,103,203,107,222,161,188,86,15,241,52,81,42,117,98,11,174,211,136,89,128,107,187,119,50,234,158,243,64,128,13,85,12,49,84,87,75,212,64,73,102,10,43,181,10,171,69,87,153,177,95,247,186,74,255,220,52,60,167>>,
    <<156,161,151,24,74,39,146,241,167,220,157,83,124,132,106,37,165,189,179,215,165,174,110,206,186,76,32,136,73,108,77,7,69,124,119,180,205,206,130,15,79,185,36,38,232,229,166,214,109,66,137,85,137,210,224,70,225,195,182,92,202,254,106,248>>,
    <<74,224,53,126,59,224,132,38,182,19,166,153,244,189,232,116,9,202,193,249,126,209,82,31,89,182,66,26,50,146,200,206,170,142,93,96,219,71,175,54,243,154,36,57,165,82,230,215,203,249,164,215,16,51,193,201,233,174,86,103,95,223,3,142>>,
    <<246,23,198,223,128,87,4,71,60,75,140,119,114,212,44,38,4,243,20,144,236,253,136,245,77,164,62,109,144,96,228,3,43,171,149,95,161,114,221,181,103,125,25,96,40,227,36,102,95,125,156,120,153,207,226,224,207,171,84,169,46,119,247,12>>,
    <<81,134,66,21,129,80,137,60,124,20,210,143,59,126,89,65,235,28,132,226,45,75,2,60,136,99,178,158,138,17,194,50,3,124,57,217,35,52,170,93,89,253,184,134,50,60,88,175,253,208,185,229,215,206,161,187,158,204,140,232,2,231,23,228>>,
    <<236,58,127,130,121,12,222,1,161,59,113,164,81,1,128,218,231,208,19,128,224,26,87,22,97,236,31,253,105,243,15,101,0,223,207,76,180,6,180,126,66,98,252,111,157,11,83,234,184,176,62,197,221,179,96,52,194,196,151,248,88,146,164,203>>,
    <<171,213,227,250,211,225,59,120,239,210,76,134,114,15,70,30,243,11,245,79,100,183,88,111,89,87,255,189,126,1,71,76,94,143,254,253,194,192,87,250,163,99,205,106,45,19,56,143,227,98,138,4,233,73,168,197,73,162,44,31,204,36,226,189>>,
    <<254,75,94,233,54,202,102,27,18,86,17,249,73,64,242,159,245,172,31,218,81,98,142,144,159,109,133,114,250,161,42,46,49,210,233,152,107,87,129,86,127,157,162,95,167,126,34,99,51,157,32,8,211,154,6,202,218,187,13,243,101,29,241,62>>,
    <<197,43,115,133,211,25,90,52,223,182,227,199,252,36,215,244,11,177,159,70,16,12,7,186,185,221,40,34,108,49,143,109,74,81,7,152,243,158,178,133,244,26,127,30,68,42,198,69,72,69,106,173,230,192,4,220,29,81,57,104,123,69,157,56>>,
    <<215,211,175,181,125,92,188,117,51,133,231,220,253,106,12,11,135,91,124,90,77,247,205,252,236,223,122,208,239,110,234,209,89,15,250,208,176,133,229,208,177,77,41,215,183,104,202,204,250,151,199,209,221,18,58,200,26,249,114,13,173,80,15,216>>
  >>

\* hmac.new(key, struct.pack('>Q', c), hashlib.sha512).digest() for c = 0..15,
\* key = [26, 47, 250]; entry c + 1 is the digest of counter c.
Digests_sha512_DIX7U ==
  <<
    <<140,187,245,31,127,245,124,172,159,188,180,46,131,31,3,143,174,139,108,215,32,198,67,169,145,236,98,1,121,80,178,73,151,54,102,230,65,156,122,124,114,148,215,248,212,128,33,34,231,140,158,183,59,15,230,97,185,106,78,21,49,133,140,37>>,
    <<137,104,199,204,235,238,42,146,60,41,20,75,135,189,166,222,169,16,38,206,92,11,148,20,117,189,57,47,207,175,39,179,148,96,233,19,27,251,166,103,244,161,129,109,149,0,159,220,211,171,89,75,92,236,248,84,23,162,17,47,130,65,80,42>>,
    <<208,184,235,220,175,3,23,243,193,246,23,193,171,120,207,73,226,196,249,41,248,94,123,27,88,6,172,97,104,48,138,46,113,86,191,65,167,13,43,119,160,47,196,184,107,154,248,63,139,180,78,134,147,194,188,11,201,138,17,72,109,3,59,209>>,
    <<85,129,154,54,36,165,254,91,249,85,46,199,126,34,14,55,240,184,154,157,206,235,226,41,200,67,72,124,236,96,40,231,164,56,9,62,13,123,147,129,231,185,21,239,178,195,206,82,203,228,33,171,57,104,165,4,95,41,120,223,46,150,27,188>>,
    <<63,158,172,46,171,120,10,36,46,21,23,52,21,109,100,158,157,2,214,55,181,117,218,106,237,158,61,199,56,92,90,223,94,117,147,122,63,184,199,205,6,46,222,242,104,19,149,75,242,5,103,174,50,253,119,158,179,111,30,164,3,161,180,75>>,
    <<229,174,139,17,224,76,58,230,71,23,134,235,134,9,193,29,101,219,228,189,3,128,24,172,208,101,32,88,36,6,124,233,202,107,163,23,145,148,76,201,23,104,60,218,194,189,131,138,58,28,113,100,70,87,159,96,125,199,254,171,140,31,69,193>>,
    <<211,111,130,215,197,119,6,142,207,162,35,50,96,6,191,125,220,240,134,28,32,56,180,106,203,170,71,159,137,8,127,229,83,48,207,133,189,85,1,77,175,12,135,165,159,57,33,237,129,252,74,61,81,73,252,224,48,8,169,75,59,200,106,199>>,
    <<208,192,251,168,226,44,237,221,40,52,13,136,23,72,25,121,225,8,71,97,171,64,132,156,195,80,115,139,203,30,9,53,53,162,27,174,231,111,254,60,237,153,44,50,170,58,181,45,191,6,215,141,1,132,201,244,127,183,139,86,57,212,146,62>>,
    <<10,67,49,24,14,29,156,254,116,19,150,7,189,187,196,229,24,244,25,224,151,193,40,194,146,172,48,165,204,123,52,1,142,68,238,206,106,97,245,128,108,108,5,153,103,68,154,63,119,86,200,164,212,103,30,65,152,18,233,113,245,192,251,76>>,
    <<120,189,107,41,254,175,229,71,107,9,42,76,90,159,57,212,144,181,232,160,192,146,211,43,80,187,21,130,130,162,114,255,92,69,122,58,155,196,36,9,34,220,81,222,2,104,144,184,240,242,68,201,129,59,195,179,196,237,34,213,126,43,35,213>>,
    <<1,110,240,80,76,235,65,124,105,89,187,254,224,123,109,54,246,105,122,250,102,130,164,96,104,9,204,109,125,57,55,62,153,81,169,57,27,162,37,187,87,121,82,21,120,27,134,241,105,80,0,104,164,53,229,68,10,83,24,162,201,80,134,185>>,
    <<220,178,44,3,63,115,116,39,121,168,145,209,58,43,52,140,235,169,187,25,199,184,152,102,229,74,136,25,175,196,224,53,74,94,218,85,43,114,179,185,235,44,121,178,243,214,184,182,14,189,129,174,29,119,181,79,54,220,122,233,181,121,97,145>>,
    <<145,131,26,46,90,113,49,66,197,86,0,42,175,241,251,134,48,132,93,178,197,177,244,165,85,100,60,179,145,195,43,98,88,111,38,15,111,221,176,134,122,63,215,77,43,150,159,125,254,152,89,143,53,210,26,123,46,12,160,202,162,56,62,134>>,
    <<122,144,3,190,149,227,94,190,169,80,10,213,30,75,254,46,162,8,70,6,204,11,115,78,112,116,220,149,90,68,218,171,141,7,231,169,203,47,153,87,126,103,67,32,32,153,128,34,14,198,178,23,125,221,180,101,213,10,215,1,127,209,177,58>>,
    <<190,112,230,251,214,70,248,194,72,92,193,70,153,224,130,56,210,191,154,103,47,72,217,151,212,97,163,187,62,40,222,78,91,183,198,203,118,62,228,9,20,187,247,15,220,68,210,119,44,187,104,141,239,106,234,175,148,23,157,114,148,215,248,82>>,
    <<240,218,58,23,92,133,104,237,138,47,207,169,7,85,62,185,114,187,60,104,20,196,40,206,212,213,93,168,98,199,129,215,141,164,113,30,67,159,78,158,213,244,91,86,22,97,50,224,150,141,125,28,233,182,83,182,132,242,255,105,68,251,151,107>>
  >>

\* hmac.new(key, msg, hash_func).digest(), read from the digests above.
hmac_digest(key, msg, hash_name) ==
  CASE key = <<72, 101, 108, 108, 111>> /\ hash_name = <<"s","h","a","1">>
         -> Digests_sha1_JBSWY3DP[CounterOfMessage(msg) + 1]
    [] key = <<72, 101, 108, 108, 111>> /\ hash_name = <<"s","h","a","2","5","6">>
         -> Digests_sha256_JBSWY3DP[CounterOfMessage(msg) + 1]
    [] key = <<72, 101, 108, 108, 111>> /\ hash_name = <<"s","h","a","5","1","2">>
         -> Digests_sha512_JBSWY3DP[CounterOfMessage(msg) + 1]
    [] key = <<26, 47, 250>> /\ hash_name = <<"s","h","a","1">>
         -> Digests_sha1_DIX7U[CounterOfMessage(msg) + 1]
    [] key = <<26, 47, 250>> /\ hash_name = <<"s","h","a","2","5","6">>
         -> Digests_sha256_DIX7U[CounterOfMessage(msg) + 1]
    [] key = <<26, 47, 250>> /\ hash_name = <<"s","h","a","5","1","2">>
         -> Digests_sha512_DIX7U[CounterOfMessage(msg) + 1]

\* struct.unpack('>I', b)[0] & 0x7FFFFFFF.  The unsigned word can reach
\* 2**32 - 1, beyond TLC's integers, so the mask is applied to the most
\* significant byte (b[1] & 0x7F) before the four bytes are combined.
unpack_I_masked(b) == (b[1] % 128) * 16777216 + b[2] * 65536 + b[3] * 256 + b[4]

\* code % (10 ** digits) for 0 <= code < 2**31.  10 ** digits exceeds TLC's
\* integers from digits = 10 on, where it also exceeds every code, so the
\* remainder is the code itself.
mod_pow10(code, digits) ==
  IF digits >= 10 THEN code ELSE code % (10 ^ digits)

\* Floor division and remainder of Python ints (// and %), b # 0.
py_floordiv(a, b) == IF b > 0 THEN a \div b ELSE (-a) \div (-b)

py_mod(a, b) == a - b * py_floordiv(a, b)

\* ------------------------------------------------------------- class TOTP

\* The keys of self.algorithm_map.
algorithm_map ==
  {<<"s","h","a","1">>, <<"s","h","a","2","5","6">>, <<"s","h","a","5","1","2">>}

\* TOTP.__init__: the fields are assigned, then an algorithm that is no key
\* of algorithm_map raises ValueError.  Nothing else is checked.
TOTP_init(secret, time_step, t0, digits, algorithm) ==
  IF algorithm \notin algorithm_map
    THEN [exc |-> "ValueError", self |-> <<>>]
    ELSE [exc |-> "None",
          self |-> <<[secret |-> secret, time_step |-> time_step, t0 |-> t0,
                      digits |-> digits, algorithm |-> algorithm,
                      algorithm_map |-> algorithm_map]>>]

\* The local variable secret of _decode_secret once the padding is added.
padded_secret(secret) ==
  IF Len(secret) % 8 # 0
    THEN secret \o str_repeat("=", 8 - (Len(secret) % 8))
    ELSE secret

\* The except clause of _decode_secret: every exception becomes a ValueError.
reraise_ValueError(r) ==
  [exc |-> IF r.exc # "None" THEN "ValueError" ELSE "None", ret |-> r.ret]

\* TOTP._decode_secret
decode_secret(self) ==
  reraise_ValueError(b32decode(str_upper(padded_secret(self.secret))))

\* _get_time_counter with a division that rounds toward zero
get_time_counter_truncating(self, timestamp) ==
  IF self.time_step = 0
    THEN [exc |-> "ZeroDivisionError", ret |-> 0]
    ELSE [exc |-> "None",
          ret |-> IF (timestamp - self.t0 < 0) = (self.time_step < 0)
                    THEN py_floordiv(timestamp - self.t0, self.time_step)
                    ELSE -py_floordiv(self.t0 - timestamp, self.time_step)]

\* TOTP._get_time_counter with the timestamp given:
\* (timestamp - self.t0) // self.time_step, ZeroDivisionError for time_step 0.
get_time_counter(self, timestamp) ==
  IF self.time_step = 0
    THEN [exc |-> "ZeroDivisionError", ret |-> 0]
    ELSE [exc |-> "None", ret |-> py_floordiv(timestamp - self.t0, self.time_step)]

\* Lines 95-100 of _generate_hotp: the dynamic truncation of the digest.
truncate_digest(hmac_hash) ==
  unpack_I_masked(SubSeq(hmac_hash, (hmac_hash[Len(hmac_hash)] % 16) + 1,
                                    (hmac_hash[Len(hmac_hash)] % 16) + 4))

\* render_otp without the zfill of line 106
render_otp_unpadded(code, digits) == str_of_int(mod_pow10(code, digits))

\* Lines 103-106 of _generate_hotp: str(code % (10 ** digits)).zfill(digits)
render_otp(code, digits) == str_zfill(str_of_int(mod_pow10(code, digits)), digits)

\* hotp_from_key storing the padded, upper-cased secret in self.secret
hotp_from_key_storing(self, key, counter_bytes) ==
  IF key.exc # "None"
    THEN [self |-> self, exc |-> key.exc, ret |-> <<>>]
  ELSE IF counter_bytes.exc # "None"
    THEN [self |-> self, exc |-> counter_bytes.exc, ret |-> <<>>]
  ELSE [self |-> [self EXCEPT !.secret = str_upper(padded_secret(self.secret))],
        exc |-> "None",
        ret |-> render_otp(
                  truncate_digest(hmac_digest(key.ret, counter_bytes.ret, self.algorithm)),
                  self.digits)]

\* TOTP._generate_hotp from line 88 on, key being what _decode_secret gave
\* and counter_bytes what struct.pack gave: the secret is decoded first, so
\* an undecodable secret raises ValueError whatever the counter.  self is
\* the object after the call: no field is assigned.
hotp_from_key(self, key, counter_bytes) ==
  IF key.exc # "None"
    THEN [self |-> self, exc |-> key.exc, ret |-> <<>>]
  ELSE IF counter_bytes.exc # "None"
    THEN [self |-> self, exc |-> counter_bytes.exc, ret |-> <<>>]
  ELSE [self |-> self, exc |-> "None",
        ret |-> render_otp(
                  truncate_digest(hmac_digest(key.ret, counter_bytes.ret, self.algorithm)),
                  self.digits)]

\* TOTP._generate_hotp: key and counter_bytes are its local variables of
\* lines 85 and 88, each bound to its value once.
generate_hotp(self, counter) ==
  CHOOSE otp \in {hotp_from_key(self, key, counter_bytes) :
                    key \in {decode_secret(self)},
                    counter_bytes \in {struct_pack_Q(counter)}} : TRUE

\* The dictionary generate returns; its fields are 0 / empty when generate raised.
NoResult == [otp |-> <<>>, counter |-> 0, time_remaining |-> 0, timestamp |-> 0]

\* Line 125: time_remaining
time_remaining(self, timestamp) ==
  self.time_step - py_mod(timestamp - self.t0, self.time_step)

\* TOTP.generate from line 122 on, counter being what _get_time_counter gave
\* and otp what _generate_hotp(counter) gave.  Besides self, exc and ret the
\* record holds what the call did: derived (whether _get_time_counter
\* returned), counter (the local variable, 0 until then) and hotp_calls (the
\* counters _generate_hotp was called with, in order).
generate_from_counter(self, timestamp, counter, otp) ==
  IF counter.exc # "None"
    THEN [self |-> self, exc |-> counter.exc, ret |-> NoResult,
          timestamp |-> timestamp, derived |-> FALSE, counter |-> 0,
          hotp_calls |-> <<>>]
  ELSE IF otp.exc # "None"
    THEN [self |-> otp.self, exc |-> otp.exc, ret |-> NoResult,
          timestamp |-> timestamp, derived |-> TRUE, counter |-> counter.ret,
          hotp_calls |-> <<counter.ret>>]
  ELSE [self |-> otp.self, exc |-> "None",
        ret |-> [otp |-> otp.ret, counter |-> counter.ret,
                 time_remaining |-> time_remaining(self, timestamp),
                 timestamp |-> timestamp],
        timestamp |-> timestamp, derived |-> TRUE, counter |-> counter.ret,
        hotp_calls |-> <<counter.ret>>]

generate_at_counter(self, timestamp, counter) ==
  generate_from_counter(self, timestamp, counter, generate_hotp(self, counter.ret))

\* TOTP.generate(timestamp) with the timestamp resolved
generate_at(self, timestamp) ==
  generate_at_counter(self, timestamp, get_time_counter(self, timestamp))

\* An optional timestamp argument: None (<<>>) reads the clock, int(time.time()).
resolve_timestamp(timestamp_arg, now) ==
  IF timestamp_arg = <<>> THEN now ELSE timestamp_arg[1]

\* TOTP.generate(timestamp), now being what the clock shows
generate(self, timestamp_arg, now) ==
  generate_at(self, resolve_timestamp(timestamp_arg, now))

\* verify_from_counter with the loop over range(-window, window)
verify_from_counter_short(timestamp, window, current_counter) ==
  [exc |-> current_counter.exc, timestamp |-> timestamp, window |-> window,
   derived |-> current_counter.exc = "None",
   current_counter |-> current_counter.ret, i |-> -window,
   running |-> current_counter.exc = "None" /\ -window < window]

\* verify_from_counter with the loop over range(-window + 1, window + 1)
verify_from_counter_late(timestamp, window, current_counter) ==
  [exc |-> current_counter.exc, timestamp |-> timestamp, window |-> window,
   derived |-> current_counter.exc = "None",
   current_counter |-> current_counter.ret, i |-> -window + 1,
   running |-> current_counter.exc = "None" /\ -window + 1 < window + 1]

\* TOTP.verify up to the for statement, current_counter being what
\* _get_time_counter gave: the loop variable i starts at -window, and
\* running says whether range(-window, window + 1) holds a first element.
verify_from_counter(timestamp, window, current_counter) ==
  [exc |-> current_counter.exc, timestamp |-> timestamp, window |-> window,
   derived |-> current_counter.exc = "None",
   current_counter |-> current_counter.ret, i |-> -window,
   running |-> current_counter.exc = "None" /\ -window < window + 1]

verify_at(self, timestamp, window) ==
  verify_from_counter(timestamp, window, get_time_counter(self, timestamp))

\* TOTP.verify(otp, timestamp, window) up to the for statement; the default
\* window is 1.
verify_enter(self, timestamp_arg, now, window_arg) ==
  verify_at(self, resolve_timestamp(timestamp_arg, now),
            IF window_arg = <<>> THEN 1 ELSE window_arg[1])

\* Whether range(-window, window + 1) holds an element after i.
range_has_next(i, window) == i + 1 < window + 1

\* verify_compare without the return at the first match: the loop runs to
\* the end of the range and the last comparison is returned
verify_compare_to_end(otp, counter, i, window, hotp) ==
  [self |-> hotp.self, exc |-> hotp.exc, counter |-> counter,
   returns |-> hotp.exc # "None" \/ ~range_has_next(i, window),
   ret |-> hotp.exc = "None" /\ hotp.ret = otp,
   i |-> i + 1]

\* One iteration of the for loop of TOTP.verify with loop variable i, hotp
\* being what _generate_hotp(current_counter + i) gave: a code equal to otp
\* returns True, an exception leaves the method, otherwise the loop goes on
\* with i + 1 or, the range exhausted, the method returns False.
verify_compare(otp, counter, i, window, hotp) ==
  [self |-> hotp.self, exc |-> hotp.exc, counter |-> counter,
   returns |-> hotp.exc # "None" \/ hotp.ret = otp \/ ~range_has_next(i, window),
   ret |-> hotp.exc = "None" /\ hotp.ret = otp,
   i |-> i + 1]

\* Lines 153-157: hotp is the value of self._generate_hotp(counter).
verify_iteration(self, otp, current_counter, i, window) ==
  CHOOSE r \in {verify_compare(otp, current_counter + i, i, window, hotp) :
                  hotp \in {generate_hotp(self, current_counter + i)}} : TRUE

\* The for loop of TOTP.verify from loop variable i on, run without
\* interruption.
RECURSIVE verify_loop(_, _, _, _, _)
verify_loop(self, otp, current_counter, i, window) ==
  IF verify_iteration(self, otp, current_counter, i, window).returns
    THEN verify_iteration(self, otp, current_counter, i, window)
    ELSE verify_loop(verify_iteration(self, otp, current_counter, i, window).self,
                     otp, current_counter, i + 1, window)

\* TOTP.verify from the for statement on, entered being what verify_enter gave
verify_entered(self, otp, entered) ==
  IF ~entered.running
    THEN [self |-> self, exc |-> entered.exc, ret |-> FALSE]
    ELSE [self |-> verify_loop(self, otp, entered.current_counter, entered.i,
                               entered.window).self,
          exc |-> verify_loop(self, otp, entered.current_counter, entered.i,
                              entered.window).exc,
          ret |-> verify_loop(self, otp, entered.current_counter, entered.i,
                              entered.window).ret]

\* TOTP.verify(otp, timestamp, window), run without interruption
verify(self, otp, timestamp_arg, now, window_arg) ==
  verify_entered(self, otp, verify_enter(self, timestamp_arg, now, window_arg))

\* ------------------------------------------------------ backend/app.py

\* dict.get(key, default) for an optional entry
dict_get(entry, default) == IF entry = <<>> THEN default ELSE entry[1]

NoResponse == [status |-> 0, error |-> "", valid |-> FALSE, result |-> NoResult]

\* jsonify({'error': ...}), status
ErrorResponse(status, error) ==
  [status |-> status, error |-> error, valid |-> FALSE, result |-> NoResult]

\* The except clauses of both handlers: a ValueError is answered with 400,
\* every other exception with 500.
ExceptionResponse(exc) ==
  IF exc = "ValueError" THEN ErrorResponse(400, "ValueError")
                        ELSE ErrorResponse(500, "Internal server error")

\* The parameters both handlers read from a request body that holds a secret.
request_parameters(data) ==
  [secret |-> data.secret[1],
   time_step |-> dict_get(data.time_step, 30),
   t0 |-> dict_get(data.t0, 0),
   digits |-> dict_get(data.digits, 6),
   algorithm |-> str_lower(dict_get(data.algorithm, <<"s","h","a","1">>)),
   window |-> dict_get(data.window, 1)]

\* The parameter checks of generate_totp (lines 35-46), in their order; ""
\* when all pass.  The values of the model are ints, so the isinstance
\* tests pass.
generate_totp_validation(p) ==
  IF p.time_step <= 0 THEN "Time step must be a positive integer"
  ELSE IF p.digits < 6 \/ p.digits > 10 THEN "Digits must be between 6 and 10"
  ELSE IF p.algorithm \notin algorithm_map THEN "Algorithm must be sha1, sha256, or sha512"
  ELSE ""

\* What a handler did when it called no method of a TOTP object.
NoCall ==
  [self |-> <<>>, exc |-> "None", ret |-> NoResult, timestamp |-> 0,
   derived |-> FALSE, counter |-> 0, hotp_calls |-> <<>>]

\* generate_totp from line 59 on, result being what totp.generate() gave
generate_totp_respond(result) ==
  [totp |-> <<result.self>>, call |-> result,
   response |-> IF result.exc # "None" THEN ExceptionResponse(result.exc)
                ELSE [status |-> 200, error |-> "", valid |-> FALSE,
                      result |-> result.ret]]

\* generate_totp from line 57 on, totp being what TOTP(...) gave
generate_totp_constructed(totp, now) ==
  IF totp.exc # "None"
    THEN [totp |-> <<>>, call |-> NoCall, response |-> ExceptionResponse(totp.exc)]
    ELSE generate_totp_respond(generate(totp.self[1], <<>>, now))

\* generate_totp from line 35 on, p being the parameters read
generate_totp_checked(p, invalid, now) ==
  IF invalid # ""
    THEN [totp |-> <<>>, call |-> NoCall, response |-> ErrorResponse(400, invalid)]
    ELSE generate_totp_constructed(
           TOTP_init(p.secret, p.time_step, p.t0, p.digits, p.algorithm), now)

generate_totp_parsed(p, now) ==
  generate_totp_checked(p, generate_totp_validation(p), now)

\* generate_totp, the handler of POST /api/generate, with now the clock:
\* totp is the object constructed (<<>> if none was), call what
\* totp.generate() did.
generate_totp(data, now) ==
  IF data.secret = <<>>
    THEN [totp |-> <<>>, call |-> NoCall,
          response |-> ErrorResponse(400, "Secret key is required")]
    ELSE generate_totp_parsed(request_parameters(data), now)

\* verify_totp from line 118 on, totp being what TOTP(...) gave
verify_totp_constructed(totp) ==
  IF totp.exc # "None"
    THEN [totp |-> <<>>, entered |-> FALSE, response |-> ExceptionResponse(totp.exc)]
    ELSE [totp |-> totp.self, entered |-> TRUE, response |-> NoResponse]

verify_totp_parsed(p) ==
  verify_totp_constructed(TOTP_init(p.secret, p.time_step, p.t0, p.digits, p.algorithm))

\* verify_totp, the handler of POST /api/verify, up to the call of
\* totp.verify(otp, window=window): no parameter is checked before the
\* object is constructed.
verify_totp_enter(data) ==
  IF data.secret = <<>> \/ data.otp = <<>>
    THEN [totp |-> <<>>, entered |-> FALSE,
          response |-> ErrorResponse(400, "Secret key and OTP are required")]
    ELSE verify_totp_parsed(request_parameters(data))

\* The end of verify_totp once totp.verify has returned or raised.
verify_totp_respond(exc, is_valid) ==
  IF exc # "None" THEN ExceptionResponse(exc)
  ELSE [status |-> 200, error |-> "", valid |-> is_valid, result |-> NoResult]

\* ------------------------------------------------------------------ inputs

SecretJBSWY3DP == <<"J","B","S","W","Y","3","D","P">>
\* lower case and without padding: b32decode("DIX7U===") is 1a 2f fa
SecretDix7u == <<"d","i","x","7","u">>
\* "1" is no Base32 digit
SecretUndecodable == <<"d","i","x","1","u">>

SHA1 == <<"s","h","a","1">>
SHA256 == <<"s","h","a","2","5","6">>
SHA512 == <<"s","h","a","5","1","2">>

\* Arguments of TOTP(...) that pass every check of the request layer.
ValidConfigs ==
  [secret : {SecretJBSWY3DP, SecretDix7u}, time_step : {1, 2}, t0 : {-1, 2},
   digits : {6, 10}, algorithm : {SHA1, SHA256, SHA512}]

\* Arguments that differ from valid ones in one field.
OffConfigs ==
  UNION {
    {[c EXCEPT !.time_step = 0], [c EXCEPT !.time_step = -1],
     [c EXCEPT !.digits = 5], [c EXCEPT !.digits = 11],
     [c EXCEPT !.secret = SecretUndecodable],
     [c EXCEPT !.algorithm = <<"m","d","5">>]} :
    c \in [secret : {SecretDix7u}, time_step : {1}, t0 : {-1, 2},
           digits : {6}, algorithm : {SHA1}] }

Configs == ValidConfigs \cup OffConfigs

Timestamps == 0..MaxTimestamp
Windows == (-1)..MaxWindow

WindowInputs == {<<>>} \cup {<<w>> : w \in Windows}

\* Candidate codes that no generate call of the run produced: a code of no
\* counter, and HOTP-SHA1 of SecretDix7u for counters 1 and 2.
OtherOtps == {<<"0","0","0","0","0","0">>}
KnownOtps == {<<"0","0","0","0","0","0">>, <<"4","5","3","0","1","0">>}

\* Request bodies, an absent key being <<>>: a body that names the secret
\* and time_step 1, with or without t0, and one more key set or removed.
NoData ==
  [secret |-> <<>>, time_step |-> <<>>, t0 |-> <<>>, digits |-> <<>>,
   algorithm |-> <<>>, otp |-> <<>>, window |-> <<>>]

RequestBodies ==
  UNION {
    {b, [b EXCEPT !.secret = <<>>], [b EXCEPT !.secret = <<SecretUndecodable>>],
     [b EXCEPT !.time_step = <<>>], [b EXCEPT !.time_step = <<0>>],
     [b EXCEPT !.time_step = <<-1>>],
     [b EXCEPT !.digits = <<5>>], [b EXCEPT !.digits = <<10>>],
     [b EXCEPT !.digits = <<11>>],
     [b EXCEPT !.algorithm = <<<<"S","H","A","2","5","6">>>>],
     [b EXCEPT !.algorithm = <<<<"m","d","5">>>>],
     [b EXCEPT !.window = <<-1>>], [b EXCEPT !.window = <<0>>]} :
    b \in {[NoData EXCEPT !.secret = <<SecretDix7u>>, !.time_step = <<1>>, !.t0 = t0] :
             t0 \in {<<>>, <<2>>}} }

\* ------------------------------------------------------------------- state

Threads == {1, 2}

\* The servers start.py spawns: backend/app.py and http.server on frontend/.
Servers == {"backend", "frontend"}

VARIABLES
  objs,     \* objs[t]: the TOTP object thread t constructed last, <<>> if none
  frame,    \* frame[t]: the call thread t is in, or was in last
  lastGen,  \* <<>> or the result of the last generate that returned, with its object
  launcher  \* the process running start.py, with the servers it has spawned

vars == <<objs, frame, lastGen, launcher>>

\* start.py before it is run: no handler registered, `processes` empty
\* (line 16), no server spawned, no signal sent to any.
IdleLauncher ==
  [pc |-> "idle", platform |-> "none", handlers |-> FALSE, processes |-> <<>>,
   child |-> [c \in Servers |-> "none"], sent |-> [c \in Servers |-> {}],
   k |-> 0, step |-> "none", cause |-> "none", code |-> <<>>]

IdleFrame ==
  [pc |-> "idle", handler |-> "none", op |-> "none", obj |-> 0,
   otp |-> <<>>, timestamp |-> 0, window |-> 0, current_counter |-> 0, i |-> 0,
   derived |-> FALSE, hotp_calls |-> <<>>, exc |-> "None", valid |-> FALSE,
   ret |-> NoResult, data |-> NoData, response |-> NoResponse, served |-> 0]

Init ==
  /\ objs = [t \in Threads |-> <<>>]
  /\ frame = [t \in Threads |-> IdleFrame]
  /\ lastGen = <<>>
  /\ launcher = IdleLauncher

\* Thread t is between calls.
Free(t) == frame[t].pc \in {"idle", "done"}

\* No other thread is inside a method of the object thread t holds.
Unshared(t) == \A u \in Threads \ {t} : Free(u) \/ frame[u].obj # t

\* lastGen once thread t has bound a new object.
ForgetGen(t) == IF lastGen # <<>> /\ lastGen[1].obj = t THEN <<>> ELSE lastGen

\* The codes a verify call is given: the last generated one, or another.
OtpInputs == OtherOtps \cup (IF lastGen = <<>> THEN {} ELSE {lastGen[1].ret.otp})

\* ----------------------------------------------------------------- actions

\* The state after TOTP(...) gave r in thread t.
Constructed(t, r) ==
  /\ objs' = IF r.exc = "None" THEN [objs EXCEPT ![t] = r.self] ELSE objs
  /\ lastGen' = IF r.exc = "None" THEN ForgetGen(t) ELSE lastGen
  /\ frame' = [frame EXCEPT ![t] =
                 [IdleFrame EXCEPT !.pc = "done", !.op = "__init__",
                                   !.obj = t, !.exc = r.exc]]
  /\ UNCHANGED launcher

\* totp = TOTP(secret, time_step, t0, digits, algorithm) in thread t, which
\* binds its object once.
Construct(t, c) ==
  /\ Free(t) /\ objs[t] = <<>>
  /\ Constructed(t, TOTP_init(c.secret, c.time_step, c.t0, c.digits, c.algorithm))

\* The state after objs[o].generate(...) gave r in thread t.
Generated(t, o, r) ==
  /\ objs' = [objs EXCEPT ![o] = <<r.self>>]
  /\ lastGen' = IF r.exc = "None" THEN <<[obj |-> o, ret |-> r.ret]>> ELSE lastGen
  /\ frame' = [frame EXCEPT ![t] =
                 [IdleFrame EXCEPT !.pc = "done", !.op = "generate", !.obj = o,
                                   !.timestamp = r.timestamp,
                                   !.derived = r.derived,
                                   !.current_counter = r.counter,
                                   !.hotp_calls = r.hotp_calls,
                                   !.exc = r.exc, !.ret = r.ret]]
  /\ UNCHANGED launcher

\* objs[o].generate(timestamp) in thread t
CallGenerate(t, o, timestamp_arg, now) ==
  /\ Free(t) /\ objs[o] # <<>>
  /\ Generated(t, o, generate(objs[o][1], timestamp_arg, now))

\* The state once objs[o].verify(otp, ...) in thread t has reached its loop
\* (r.running) or has left without entering it.
VerifyEntered(t, o, otp, r) ==
  /\ frame' = [frame EXCEPT ![t] =
                 [IdleFrame EXCEPT !.pc = IF r.running THEN "loop" ELSE "done",
                                   !.op = "verify", !.obj = o, !.otp = otp,
                                   !.timestamp = r.timestamp, !.window = r.window,
                                   !.derived = r.derived,
                                   !.current_counter = r.current_counter,
                                   !.i = r.i, !.exc = r.exc]]
  /\ UNCHANGED <<objs, lastGen, launcher>>

\* objs[o].verify(otp, timestamp, window) in thread t, up to the loop
CallVerify(t, o, otp, timestamp_arg, now, window_arg) ==
  /\ Free(t) /\ objs[o] # <<>>
  /\ VerifyEntered(t, o, otp, verify_enter(objs[o][1], timestamp_arg, now, window_arg))

\* The state after one iteration of the loop gave r in thread t.
VerifyIterated(t, r) ==
  /\ objs' = [objs EXCEPT ![frame[t].obj] = <<r.self>>]
  /\ frame' = [frame EXCEPT ![t].hotp_calls = Append(@, r.counter),
                            ![t].exc = r.exc, ![t].valid = r.ret,
                            ![t].i = IF r.returns THEN @ ELSE r.i,
                            ![t].pc = IF ~r.returns THEN "loop"
                                      ELSE IF frame[t].handler = "none" THEN "done"
                                      ELSE "returned"]
  /\ UNCHANGED <<lastGen, launcher>>

\* One iteration of the loop of verify in thread t
VerifyStep(t) ==
  /\ frame[t].pc = "loop"
  /\ \E r \in {verify_iteration(objs[frame[t].obj][1], frame[t].otp,
                                 frame[t].current_counter, frame[t].i,
                                 frame[t].window)} :
       VerifyIterated(t, r)

\* The state after generate_totp gave r in thread t.
GenerateTotpServed(t, data, r) ==
  /\ objs' = IF r.totp # <<>> THEN [objs EXCEPT ![t] = r.totp] ELSE objs
  /\ lastGen' = IF r.totp = <<>> THEN lastGen
                ELSE IF r.call.exc = "None" THEN <<[obj |-> t, ret |-> r.call.ret]>>
                ELSE ForgetGen(t)
  /\ frame' = [frame EXCEPT ![t] =
                 [IdleFrame EXCEPT !.pc = "done", !.handler = "generate_totp",
                                   !.op = IF r.totp # <<>> THEN "generate" ELSE "none",
                                   !.obj = IF r.totp # <<>> THEN t ELSE 0,
                                   !.timestamp = r.call.timestamp,
                                   !.derived = r.call.derived,
                                   !.current_counter = r.call.counter,
                                   !.hotp_calls = r.call.hotp_calls,
                                   !.exc = r.call.exc, !.ret = r.call.ret,
                                   !.data = data, !.response = r.response,
                                   !.served = frame[t].served + 1]]
  /\ UNCHANGED launcher

\* POST /api/generate served by thread t
GenerateTotp(t, data, now) ==
  /\ Free(t) /\ Unshared(t)
  /\ frame[t].served < MaxRequests
  /\ GenerateTotpServed(t, data, generate_totp(data, now))

\* The state after verify_totp answered without calling totp.verify.
VerifyTotpRefused(t, data, h) ==
  /\ frame' = [frame EXCEPT ![t] =
                 [IdleFrame EXCEPT !.pc = "done", !.handler = "verify_totp",
                                   !.data = data, !.response = h.response,
                                   !.served = frame[t].served + 1]]
  /\ UNCHANGED <<objs, lastGen, launcher>>

\* The state once verify_totp has constructed h.totp and totp.verify has
\* reached its loop (r.running) or has left without entering it.
VerifyTotpEntered(t, data, h, r) ==
  /\ objs' = [objs EXCEPT ![t] = h.totp]
  /\ lastGen' = ForgetGen(t)
  /\ frame' = [frame EXCEPT ![t] =
                 [IdleFrame EXCEPT !.pc = IF r.running THEN "loop" ELSE "returned",
                                   !.handler = "verify_totp",
                                   !.op = "verify", !.obj = t,
                                   !.otp = data.otp[1],
                                   !.timestamp = r.timestamp, !.window = r.window,
                                   !.derived = r.derived,
                                   !.current_counter = r.current_counter,
                                   !.i = r.i, !.exc = r.exc,
                                   !.data = data,
                                   !.served = frame[t].served + 1]]
  /\ UNCHANGED launcher

VerifyTotpCalled(t, data, now, h) ==
  IF ~h.entered
    THEN VerifyTotpRefused(t, data, h)
    ELSE VerifyTotpEntered(t, data, h,
           verify_enter(h.totp[1], <<>>, now, <<request_parameters(data).window>>))

\* POST /api/verify served by thread t, up to the loop of totp.verify
VerifyTotp(t, data, now) ==
  /\ Free(t) /\ Unshared(t)
  /\ frame[t].served < MaxRequests
  /\ VerifyTotpCalled(t, data, now, verify_totp_enter(data))

\* The response of POST /api/verify once totp.verify has returned or raised
VerifyTotpRespond(t) ==
  /\ frame[t].pc = "returned"
  /\ frame' = [frame EXCEPT ![t].pc = "done",
                            ![t].response = verify_totp_respond(frame[t].exc, frame[t].valid)]
  /\ UNCHANGED <<objs, lastGen, launcher>>

\* ---------------------------------------------------------- specifications

\* The library called directly by one thread.
Next ==
  \/ \E c \in Configs : Construct(1, c)
  \/ \E x \in Timestamps : CallGenerate(1, 1, <<x>>, 0)
  \/ \E otp \in OtpInputs, x \in Timestamps, wa \in WindowInputs :
       CallVerify(1, 1, otp, <<x>>, 0, wa)
  \/ VerifyStep(1)

Spec == Init /\ [][Next]_vars

\* The two handlers of backend/app.py served by one thread, the clock read
\* at each request.
NextHttp ==
  \/ \E data \in RequestBodies, now \in Timestamps : GenerateTotp(1, data, now)
  \/ \E data \in RequestBodies, otp \in {<<>>} \cup {<<c>> : c \in KnownOtps},
        now \in Timestamps :
       VerifyTotp(1, [data EXCEPT !.otp = otp], now)
  \/ VerifyStep(1)
  \/ VerifyTotpRespond(1)

SpecHttp == Init /\ [][NextHttp]_vars

\* One thread that, once inside the loop of verify, goes on with it: calls
\* on an object of three configs, one of them with a secret that cannot be
\* decoded and one whose counter is negative before t0 = 2.
FairConfigs ==
  {[secret |-> SecretDix7u, time_step |-> 1, t0 |-> -1, digits |-> 6, algorithm |-> SHA1],
   [secret |-> SecretDix7u, time_step |-> 2, t0 |-> 2, digits |-> 6, algorithm |-> SHA1],
   [secret |-> SecretUndecodable, time_step |-> 1, t0 |-> -1, digits |-> 6,
    algorithm |-> SHA1]}

FairTimestamps == {0, 1, 2}

NextFair ==
  \/ \E c \in FairConfigs : Construct(1, c)
  \/ \E x \in FairTimestamps : CallGenerate(1, 1, <<x>>, 0)
  \/ \E otp \in OtpInputs, x \in FairTimestamps, wa \in WindowInputs :
       CallVerify(1, 1, otp, <<x>>, 0, wa)
  \/ VerifyStep(1)

SpecFair == Init /\ [][NextFair]_vars /\ WF_vars(VerifyStep(1))

\* The library called by two threads on objects both can reach: each thread
\* binds one object, and every thread calls generate and verify on either.
ParConfigs ==
  {[secret |-> SecretDix7u, time_step |-> 1, t0 |-> -1, digits |-> 6, algorithm |-> SHA1],
   [secret |-> SecretJBSWY3DP, time_step |-> 1, t0 |-> 0, digits |-> 6, algorithm |-> SHA1]}

ParTimestamps == {0, 1}

ParWindowInputs == {<<>>, <<0>>}

NextPar ==
  \/ \E t \in Threads, c \in ParConfigs : Construct(t, c)
  \/ \E t \in Threads, o \in Threads, x \in ParTimestamps :
       CallGenerate(t, o, <<x>>, 0)
  \/ \E t \in Threads, o \in Threads, otp \in KnownOtps, x \in ParTimestamps,
        wa \in ParWindowInputs :
       CallVerify(t, o, otp, <<x>>, 0, wa)
  \/ \E t \in Threads : VerifyStep(t)

SpecPar == Init /\ [][NextPar]_vars

\* ------------------------------------------------------- start.py (launcher)

\* platform.system()
Platforms == {"Linux", "Windows"}

\* What start_backend() and start_frontend() can come to: a Popen object
\* ("spawned"), None (file missing, port refused by the user, Popen raised),
\* or sys.exit(1) inside get_python_command() ("exit").
StartOutcomes == {"spawned", "None", "exit"}

\* The signal cleanup sends first, and the one after the wait timed out.
TermSignal(p) == IF p = "Windows" THEN "CTRL_BREAK_EVENT" ELSE "SIGTERM"
KillSignal(p) == IF p = "Windows" THEN "TerminateProcess" ELSE "SIGKILL"

\* sys.exit(code), reached for the reason cause
sys_exit(l, code, cause) ==
  [l EXCEPT !.pc = "exited", !.step = "none", !.code = <<code>>, !.cause = cause]

\* A call of cleanup(), for the reason cause: the loop over `processes`
\* starts at its first element.
cleanup_enter(l, cause) ==
  [l EXCEPT !.pc = "cleanup", !.k = 1, !.step = "for", !.cause = cause]

\* python start.py on platform p, main() up to the two signal.signal calls:
\* sys.exit(1) when check_project_structure() is False.
Main(p, structure_ok) ==
  /\ launcher.pc = "idle"
  /\ launcher' = IF structure_ok
                   THEN [launcher EXCEPT !.pc = "start_backend", !.platform = p,
                                         !.handlers = TRUE]
                   ELSE sys_exit([launcher EXCEPT !.platform = p], 1, "structure")
  /\ UNCHANGED <<objs, frame, lastGen>>

\* backend_process = start_backend(), up to the return of Popen inside it;
\* None leads to sys.exit(1) in main.
StartBackend(outcome) ==
  /\ launcher.pc = "start_backend"
  /\ launcher' = CASE outcome = "spawned" ->
                        [launcher EXCEPT !.pc = "backend_started",
                                         !.child["backend"] = "running"]
                   [] outcome = "None" -> sys_exit(launcher, 1, "backend_failed")
                   [] OTHER -> sys_exit(launcher, 1, "python_missing")
  /\ UNCHANGED <<objs, frame, lastGen>>

\* start_backend returns the Popen object and main appends it to `processes`.
RecordBackend ==
  /\ launcher.pc = "backend_started"
  /\ launcher' = [launcher EXCEPT !.pc = "start_frontend",
                                  !.processes = Append(@, "backend")]
  /\ UNCHANGED <<objs, frame, lastGen>>

\* frontend_process = start_frontend(), up to the return of Popen inside it;
\* None leads to cleanup() in main.
StartFrontend(outcome) ==
  /\ launcher.pc = "start_frontend"
  /\ launcher' = CASE outcome = "spawned" ->
                        [launcher EXCEPT !.pc = "frontend_started",
                                         !.child["frontend"] = "running"]
                   [] outcome = "None" -> cleanup_enter(launcher, "frontend_failed")
                   [] OTHER -> sys_exit(launcher, 1, "python_missing")
  /\ UNCHANGED <<objs, frame, lastGen>>

\* start_frontend returns the Popen object and main appends it to
\* `processes`; the messages and open_browser() follow, then the loop.
RecordFrontend ==
  /\ launcher.pc = "frontend_started"
  /\ launcher' = [launcher EXCEPT !.pc = "monitor",
                                  !.processes = Append(@, "frontend")]
  /\ UNCHANGED <<objs, frame, lastGen>>

\* Some process of `processes` has poll() is not None.
SomeStopped(l) ==
  \E j \in 1..Len(l.processes) : l.child[l.processes[j]] = "stopped"

\* One round of the loop of main: cleanup() when a recorded process has
\* stopped, another second of sleep otherwise.
Monitor ==
  /\ launcher.pc = "monitor"
  /\ launcher' = IF SomeStopped(launcher)
                   THEN cleanup_enter(launcher, "child_stopped")
                   ELSE launcher
  /\ UNCHANGED <<objs, frame, lastGen>>

\* The process the loop of cleanup is at.
CleanupProcess(l) == l.processes[l.k]

\* cleanup, the head of `for process in processes` and the test
\* `process and process.poll() is None`: a running process is to be
\* signalled, a stopped one is passed over, the end of the list leads to
\* the last two lines.
CleanupPoll ==
  /\ launcher.pc = "cleanup" /\ launcher.step = "for"
  /\ launcher' =
       IF launcher.k > Len(launcher.processes)
         THEN [launcher EXCEPT !.step = "exit"]
       ELSE IF launcher.child[CleanupProcess(launcher)] = "running"
         THEN [launcher EXCEPT !.step = "signal"]
       ELSE [launcher EXCEPT !.k = @ + 1]
  /\ UNCHANGED <<objs, frame, lastGen>>

\* cleanup, the first signal: CTRL_BREAK_EVENT on Windows, SIGTERM to the
\* process group elsewhere.  When the process has stopped since the poll the
\* call may raise instead (raises), which `except Exception` prints before
\* the loop goes on.
CleanupSignal(raises) ==
  /\ launcher.pc = "cleanup" /\ launcher.step = "signal"
  /\ raises => launcher.child[CleanupProcess(launcher)] = "stopped"
  /\ launcher' =
       IF raises
         THEN [launcher EXCEPT !.k = @ + 1, !.step = "for"]
         ELSE [launcher EXCEPT !.sent[CleanupProcess(launcher)] =
                                  @ \cup {TermSignal(launcher.platform)},
                               !.step = "wait"]
  /\ UNCHANGED <<objs, frame, lastGen>>

\* cleanup, process.wait(timeout=5): the process stops within five seconds
\* (or had stopped), or TimeoutExpired is raised (timeout).
CleanupWait(timeout) ==
  /\ launcher.pc = "cleanup" /\ launcher.step = "wait"
  /\ timeout => launcher.child[CleanupProcess(launcher)] = "running"
  /\ launcher' =
       IF timeout
         THEN [launcher EXCEPT !.step = "kill"]
         ELSE [launcher EXCEPT !.child[CleanupProcess(launcher)] = "stopped",
                               !.k = @ + 1, !.step = "for"]
  /\ UNCHANGED <<objs, frame, lastGen>>

\* cleanup, `except subprocess.TimeoutExpired`: process.kill() on Windows,
\* SIGKILL to the process group elsewhere, which no process outlives.
CleanupKill ==
  /\ launcher.pc = "cleanup" /\ launcher.step = "kill"
  /\ launcher' = [launcher EXCEPT !.sent[CleanupProcess(launcher)] =
                                     @ \cup {KillSignal(launcher.platform)},
                                  !.child[CleanupProcess(launcher)] = "stopped",
                                  !.k = @ + 1, !.step = "for"]
  /\ UNCHANGED <<objs, frame, lastGen>>

\* cleanup, its last two lines: the message and sys.exit(0).
CleanupExit ==
  /\ launcher.pc = "cleanup" /\ launcher.step = "exit"
  /\ launcher' = sys_exit(launcher, 0, launcher.cause)
  /\ UNCHANGED <<objs, frame, lastGen>>

\* SIGINT or SIGTERM delivered to the launcher once `cleanup` is its handler:
\* Python runs cleanup(signum, frame) before the next instruction of whatever
\* the main thread was in, main, start_backend, start_frontend or cleanup
\* itself, and the sys.exit(0) that ends it unwinds all of them.
Signal ==
  /\ launcher.handlers /\ launcher.pc # "exited"
  /\ launcher' = cleanup_enter(launcher, "signal")
  /\ UNCHANGED <<objs, frame, lastGen>>

\* Server c stops by itself while the launcher runs.
ChildStops(c) ==
  /\ launcher.pc # "exited"
  /\ launcher.child[c] = "running"
  /\ launcher' = [launcher EXCEPT !.child[c] = "stopped"]
  /\ UNCHANGED <<objs, frame, lastGen>>

\* start.py run once, on either platform, with every outcome of starting a
\* server, a signal at any instruction after the handlers are registered,
\* and servers that may stop at any time.
NextLauncher ==
  \/ \E p \in Platforms, structure_ok \in BOOLEAN : Main(p, structure_ok)
  \/ \E outcome \in StartOutcomes : StartBackend(outcome)
  \/ RecordBackend
  \/ \E outcome \in StartOutcomes : StartFrontend(outcome)
  \/ RecordFrontend
  \/ Monitor
  \/ CleanupPoll
  \/ \E raises \in BOOLEAN : CleanupSignal(raises)
  \/ \E timeout \in BOOLEAN : CleanupWait(timeout)
  \/ CleanupKill
  \/ CleanupExit
  \/ Signal
  \/ \E c \in Servers : ChildStops(c)

SpecLauncher == Init /\ [][NextLauncher]_vars

\* ------------------------------------------------------------------ claims

\* The object a frame's call is made on.
SelfOf(f) == objs[f.obj][1]

\* A config that satisfies every range and membership condition of the
\* specification: time_step > 0, digits in 6..10, a supported algorithm and
\* a decodable secret.
ValidConfig(self) ==
  /\ self.time_step > 0
  /\ self.digits \in 6..10
  /\ self.algorithm \in algorithm_map
  /\ decode_secret(self).exc = "None"

\* A generate call that has ended.
GenerateDone(f) == f.op = "generate" /\ f.pc = "done"

\* A verify call that has ended, given the code of the last generate on the
\* same object.
VerifyOfLastGenDone(f) ==
  /\ f.op = "verify" /\ f.pc = "done"
  /\ lastGen # <<>> /\ lastGen[1].obj = f.obj
  /\ f.otp = lastGen[1].ret.otp

\* C1 as stated: on a valid config generate succeeds at every timestamp,
\* those before t0 included, and verify at the same timestamp with window 0
\* accepts the code.
C1_RoundTripEveryTimestamp ==
  \A t \in Threads :
    /\ (GenerateDone(frame[t]) /\ ValidConfig(SelfOf(frame[t])))
         => frame[t].exc = "None"
    /\ (VerifyOfLastGenDone(frame[t]) /\ ValidConfig(SelfOf(frame[t]))
        /\ frame[t].timestamp = lastGen[1].ret.timestamp /\ frame[t].window = 0)
         => (frame[t].exc = "None" /\ frame[t].valid)

\* C1 amended: on a valid config generate succeeds at every timestamp whose
\* counter is not negative (timestamp >= t0) and fails at every timestamp
\* before t0, and verify at the timestamp of a generated code with window 0
\* accepts the code.
C1_RoundTrip ==
  \A t \in Threads :
    /\ (GenerateDone(frame[t]) /\ ValidConfig(SelfOf(frame[t])))
         => IF frame[t].timestamp >= SelfOf(frame[t]).t0
              THEN /\ frame[t].exc = "None"
                   /\ frame[t].ret.timestamp = frame[t].timestamp
                   /\ Len(frame[t].ret.otp) = SelfOf(frame[t]).digits
              ELSE frame[t].exc = "struct.error"
    /\ (VerifyOfLastGenDone(frame[t]) /\ ValidConfig(SelfOf(frame[t]))
        /\ frame[t].timestamp = lastGen[1].ret.timestamp /\ frame[t].window = 0)
         => (frame[t].exc = "None" /\ frame[t].valid)

\* A verify with window 0 at the timestamp of the last generate has ended.
C1_Witness ==
  /\ VerifyOfLastGenDone(frame[1]) /\ ValidConfig(SelfOf(frame[1]))
  /\ frame[1].timestamp = lastGen[1].ret.timestamp /\ frame[1].window = 0
  /\ frame[1].valid

\* C2 as stated: the code generated at T is accepted by verify at
\* T + w * time_step with window w >= 0 and rejected by verify at
\* T + (w + 1) * time_step with window w.
C2_WindowBoundaryRejects ==
  \A t \in Threads :
    (VerifyOfLastGenDone(frame[t]) /\ ValidConfig(SelfOf(frame[t]))
     /\ frame[t].window >= 0)
      => /\ (frame[t].timestamp = lastGen[1].ret.timestamp
                                  + frame[t].window * SelfOf(frame[t]).time_step)
              => (frame[t].exc = "None" /\ frame[t].valid)
         /\ (frame[t].timestamp = lastGen[1].ret.timestamp
                                  + (frame[t].window + 1) * SelfOf(frame[t]).time_step)
              => (frame[t].exc = "None" /\ ~frame[t].valid)

\* C2 amended: the code generated at T (counter c) is accepted by verify at
\* T + w * time_step with window w >= 0; verify at T + (w + 1) * time_step
\* with window w accepts it exactly if the code of one of the counters
\* c + 1 .. c + 2w + 1 equals it, and rejects it otherwise.
C2_WindowBoundary ==
  \A t \in Threads :
    (VerifyOfLastGenDone(frame[t]) /\ ValidConfig(SelfOf(frame[t]))
     /\ frame[t].window >= 0)
      => /\ (frame[t].timestamp = lastGen[1].ret.timestamp
                                  + frame[t].window * SelfOf(frame[t]).time_step)
              => (frame[t].exc = "None" /\ frame[t].valid)
         /\ (frame[t].timestamp = lastGen[1].ret.timestamp
                                  + (frame[t].window + 1) * SelfOf(frame[t]).time_step)
              => /\ frame[t].exc = "None"
                 /\ frame[t].valid =
                      (\E k \in (lastGen[1].ret.counter + 1)
                                ..(lastGen[1].ret.counter + 2 * frame[t].window + 1) :
                         generate_hotp(SelfOf(frame[t]), k).ret = frame[t].otp)

\* A verify with window 1, two steps after the generate, has rejected the code.
C2_Witness ==
  /\ VerifyOfLastGenDone(frame[1]) /\ ValidConfig(SelfOf(frame[1]))
  /\ frame[1].window = 1
  /\ frame[1].timestamp = lastGen[1].ret.timestamp + 2 * SelfOf(frame[1]).time_step
  /\ ~frame[1].valid /\ frame[1].exc = "None"

\* The parameters of a request fail a range or membership condition:
\* time_step <= 0, digits outside 6..10 or an unsupported algorithm.
OutOfRangeRequest(data) ==
  \/ request_parameters(data).time_step <= 0
  \/ request_parameters(data).digits \notin 6..10
  \/ request_parameters(data).algorithm \notin algorithm_map

\* The parameters of a request name a config the specification calls
\* invalid: out of range, or with a secret that cannot be decoded.
InvalidRequest(data) ==
  \/ OutOfRangeRequest(data)
  \/ decode_secret([secret |-> request_parameters(data).secret]).exc # "None"

\* A request that carries the keys its handler requires.
CompleteRequest(f) ==
  /\ f.handler # "none"
  /\ f.data.secret # <<>>
  /\ f.handler = "verify_totp" => f.data.otp # <<>>

\* C3 as stated: construction is the only gate; a request of either handler
\* whose time_step, digits or algorithm is out of range is answered with the
\* validation error (status 400): no method of an object is called with
\* that config, no counter is derived and no HOTP code is computed.
C3_ConstructionGate ==
  \A t \in Threads :
    (CompleteRequest(frame[t]) /\ OutOfRangeRequest(frame[t].data))
      => /\ frame[t].op = "none"
         /\ ~frame[t].derived
         /\ frame[t].hotp_calls = <<>>
         /\ frame[t].pc = "done" /\ frame[t].response.status = 400

\* C4 as stated: an object whose secret cannot be decoded is never
\* constructed, and generate and verify on a constructed object fail on no
\* ground of the config: the one failure they report is that of the
\* counter range.
C4_SecretCheckedAtConstruction ==
  /\ \A o \in Threads :
       objs[o] # <<>> => decode_secret(objs[o][1]).exc = "None"
  /\ \A t \in Threads :
       frame[t].op \in {"generate", "verify"}
         => frame[t].exc \in {"None", "struct.error"}

\* C5 as stated: a request whose counter is negative is answered with a
\* validation error (a ValueError, status 400), never with a code.
C5_CounterRangeIsValidationError ==
  \A t \in Threads :
    (/\ frame[t].handler # "none" /\ frame[t].pc = "done"
     /\ frame[t].hotp_calls # <<>>
     /\ frame[t].hotp_calls[Len(frame[t].hotp_calls)] < 0
     /\ ~InvalidRequest(frame[t].data))
      => /\ frame[t].exc = "ValueError"
         /\ frame[t].response.status = 400

\* C6 as stated: verify with a negative window fails with a validation
\* error (a ValueError) and computes no HOTP code.
C6_NegativeWindowRejected ==
  \A t \in Threads :
    (/\ frame[t].op = "verify" /\ frame[t].window < 0 /\ frame[t].pc = "done"
     /\ ValidConfig(SelfOf(frame[t])))
      => /\ frame[t].exc = "ValueError"
         /\ frame[t].hotp_calls = <<>>

\* The value of a string of decimal digits.
DigitValue == [c \in {DecimalDigits[k] : k \in 1..10} |->
                 (CHOOSE k \in 1..10 : DecimalDigits[k] = c) - 1]

RECURSIVE DecimalValue(_)
DecimalValue(s) ==
  IF s = <<>> THEN 0
  ELSE 10 * DecimalValue(SubSeq(s, 1, Len(s) - 1)) + DigitValue[s[Len(s)]]

\* RFC 4226 dynamic truncation of a digest h, written out: the low four
\* bits of the last byte are an offset, the four bytes from there are read
\* big-endian and the top bit is cleared.
DynamicTruncation(h) ==
  (h[(h[Len(h)] % 16) + 1] % 128) * 16777216 + h[(h[Len(h)] % 16) + 2] * 65536
    + h[(h[Len(h)] % 16) + 3] * 256 + h[(h[Len(h)] % 16) + 4]

\* The digest HMAC(decoded secret, 8-byte big-endian counter) of an object.
DigestOf(self, counter) ==
  hmac_digest(decode_secret(self).ret, struct_pack_Q(counter).ret, self.algorithm)

\* C7: with digits in 6..10 the code generate returned is a string of
\* exactly digits decimal digits whose value is the dynamic truncation of
\* the digest modulo 10^digits, left-padded with zeros.
C7_CodeFormat ==
  (lastGen # <<>> /\ objs[lastGen[1].obj][1].digits \in 6..10)
    => /\ Len(lastGen[1].ret.otp) = objs[lastGen[1].obj][1].digits
       /\ \A k \in 1..Len(lastGen[1].ret.otp) :
            lastGen[1].ret.otp[k] \in DOMAIN DigitValue
       /\ DecimalValue(lastGen[1].ret.otp)
            = IF objs[lastGen[1].obj][1].digits = 10
                THEN DynamicTruncation(DigestOf(objs[lastGen[1].obj][1],
                                                lastGen[1].ret.counter))
                ELSE DynamicTruncation(DigestOf(objs[lastGen[1].obj][1],
                                                lastGen[1].ret.counter))
                       % (10 ^ objs[lastGen[1].obj][1].digits)

\* generate has returned a code that starts with a zero.
C7_Witness ==
  /\ lastGen # <<>> /\ objs[lastGen[1].obj][1].digits \in 6..10
  /\ lastGen[1].ret.otp[1] = "0"
  /\ GenerateDone(frame[1]) /\ frame[1].exc = "None"

\* C8: generate and verify leave the object they are called on as it was
\* constructed (secret, time_step, t0, digits, algorithm and the algorithm
\* table), and the result of a call on an object that other threads call at
\* the same time is the one the call gives when run alone on the same
\* inputs.
C8_CallsLeaveObject ==
  /\ [][\A o \in Threads : objs[o] # <<>> => objs'[o] = objs[o]]_vars
  /\ [](\A t \in Threads :
          /\ GenerateDone(frame[t])
               => /\ frame[t].exc
                       = generate(SelfOf(frame[t]), <<frame[t].timestamp>>, 0).exc
                  /\ frame[t].ret
                       = generate(SelfOf(frame[t]), <<frame[t].timestamp>>, 0).ret
          /\ (frame[t].op = "verify" /\ frame[t].pc = "done")
               => /\ frame[t].exc
                       = verify(SelfOf(frame[t]), frame[t].otp, <<frame[t].timestamp>>,
                                0, <<frame[t].window>>).exc
                  /\ frame[t].valid
                       = verify(SelfOf(frame[t]), frame[t].otp, <<frame[t].timestamp>>,
                                0, <<frame[t].window>>).ret)

\* Both threads are inside the loop of verify on the same object, each
\* having computed a code.
C8_Witness ==
  /\ frame[1].op = "verify" /\ frame[2].op = "verify"
  /\ frame[1].obj = frame[2].obj
  /\ frame[1].pc = "loop" /\ frame[1].hotp_calls # <<>>
  /\ frame[2].pc = "loop" /\ frame[2].hotp_calls # <<>>

\* C9: with time_step > 0 the counter is the floor of
\* (timestamp - t0) / time_step, also below t0, where it is negative; it
\* does not decrease with the timestamp; and the time_remaining returned
\* lies in 1..time_step with
\* timestamp - t0 = counter * time_step + (time_step - time_remaining).
C9_FloorCounter ==
  /\ \A t \in Threads :
       (frame[t].op \in {"generate", "verify"} /\ frame[t].derived
        /\ SelfOf(frame[t]).time_step > 0)
         => /\ frame[t].current_counter * SelfOf(frame[t]).time_step
                 <= frame[t].timestamp - SelfOf(frame[t]).t0
            /\ frame[t].timestamp - SelfOf(frame[t]).t0
                 < (frame[t].current_counter + 1) * SelfOf(frame[t]).time_step
            /\ (GenerateDone(frame[t]) /\ frame[t].exc = "None")
                 => /\ frame[t].ret.counter = frame[t].current_counter
                    /\ frame[t].ret.time_remaining \in 1..SelfOf(frame[t]).time_step
                    /\ frame[t].timestamp - SelfOf(frame[t]).t0
                         = frame[t].ret.counter * SelfOf(frame[t]).time_step
                           + (SelfOf(frame[t]).time_step - frame[t].ret.time_remaining)
  /\ \A o \in Threads :
       (objs[o] # <<>> /\ objs[o][1].time_step > 0)
         => \A x \in Timestamps :
              /\ time_remaining(objs[o][1], x) \in 1..objs[o][1].time_step
              /\ x - objs[o][1].t0
                   = get_time_counter(objs[o][1], x).ret * objs[o][1].time_step
                     + (objs[o][1].time_step - time_remaining(objs[o][1], x))
              /\ \A y \in Timestamps :
                   x <= y => get_time_counter(objs[o][1], x).ret
                               <= get_time_counter(objs[o][1], y).ret

\* A counter was derived one second before t0 with time_step 2: it is -1.
C9_Witness ==
  /\ frame[1].op \in {"generate", "verify"} /\ frame[1].derived
  /\ SelfOf(frame[1]).time_step = 2
  /\ frame[1].timestamp - SelfOf(frame[1]).t0 = -1
  /\ frame[1].current_counter = -1

\* The size of range(-window, window + 1).
RangeSize(window) == IF window < 0 THEN 0 ELSE 2 * window + 1

\* What verify and generate of thread t have done so far: verify calls
\* _generate_hotp for the counters current_counter - window upward, one
\* after the other and at most 2 * window + 1 times; it returns True at the
\* first code equal to otp and False only after 2 * window + 1 unequal
\* codes; generate calls _generate_hotp once, for its counter.
BoundedCalls(t) ==
  /\ (frame[t].op = "verify" /\ frame[t].derived)
       => /\ Len(frame[t].hotp_calls) <= RangeSize(frame[t].window)
          /\ \A k \in 1..Len(frame[t].hotp_calls) :
               frame[t].hotp_calls[k]
                 = frame[t].current_counter - frame[t].window + (k - 1)
          /\ frame[t].pc = "loop"
               => /\ Len(frame[t].hotp_calls) = frame[t].i + frame[t].window
                  /\ Len(frame[t].hotp_calls) < RangeSize(frame[t].window)
          /\ (frame[t].pc = "done" /\ frame[t].exc = "None" /\ frame[t].valid)
               => /\ frame[t].hotp_calls # <<>>
                  /\ \A k \in 1..Len(frame[t].hotp_calls) :
                       (generate_hotp(SelfOf(frame[t]), frame[t].hotp_calls[k]).ret
                          = frame[t].otp) = (k = Len(frame[t].hotp_calls))
          /\ (frame[t].pc = "done" /\ frame[t].exc = "None" /\ ~frame[t].valid)
               => /\ Len(frame[t].hotp_calls) = RangeSize(frame[t].window)
                  /\ \A k \in 1..Len(frame[t].hotp_calls) :
                       generate_hotp(SelfOf(frame[t]), frame[t].hotp_calls[k]).ret
                         # frame[t].otp
  /\ (GenerateDone(frame[t]) /\ frame[t].derived)
       => frame[t].hotp_calls = <<frame[t].current_counter>>

\* A step of thread t that starts inside the loop of verify performs one
\* more HOTP computation and then either leaves the method or goes on with
\* the next element of the range.
LoopAdvances(t) ==
  /\ Len(frame'[t].hotp_calls) = Len(frame[t].hotp_calls) + 1
  /\ frame'[t].window = frame[t].window
  /\ frame'[t].current_counter = frame[t].current_counter
  /\ \/ frame'[t].pc = "done"
     \/ frame'[t].pc = "loop" /\ frame'[t].i = frame[t].i + 1

\* C10: verify always terminates: a call inside the loop leaves it, after
\* at most 2 * window + 1 HOTP computations, for consecutive counters, every
\* step inside the loop performing one of them; it returns True at the
\* first match and False only when all differ; generate performs exactly
\* one HOTP computation.
C10_VerifyTerminates ==
  /\ [](\A t \in Threads : BoundedCalls(t))
  /\ [][\A t \in Threads :
          (frame[t].pc = "loop" /\ frame'[t] # frame[t]) => LoopAdvances(t)]_vars
  /\ \A t \in Threads : (frame[t].pc = "loop") ~> (frame[t].pc = "done")

\* verify with window 2 has returned False after five HOTP computations.
C10_Witness ==
  /\ frame[1].op = "verify" /\ frame[1].pc = "done" /\ frame[1].exc = "None"
  /\ frame[1].window = 2 /\ Len(frame[1].hotp_calls) = 5 /\ ~frame[1].valid

\* The launcher has exited by one of the paths that go through cleanup.
ExitedThroughCleanup ==
  /\ launcher.pc = "exited"
  /\ launcher.cause \in {"frontend_failed", "child_stopped", "signal"}

\* Server c was spawned, is still running, and was never sent a signal.
LeftRunning(c) == launcher.child[c] = "running" /\ launcher.sent[c] = {}

\* C11: whenever the launcher has exited after spawning a server, because
\* the frontend failed to start, because the loop of main found a server
\* stopped, or because SIGINT or SIGTERM arrived at any point after the
\* handlers were registered (between Popen and processes.append included),
\* every spawned server that is still running has been sent a termination
\* signal, so that none is left running.
C11_NoServerLeftRunning ==
  ExitedThroughCleanup => \A c \in Servers : ~LeftRunning(c)

====
